---------------------------- MODULE Spec2Model ----------------------------
(***************************************************************************)
(* A model of the computations that the Luminous Money type package        *)
(* documents: resolving a transaction's split templates into split         *)
(* amounts, scoring a matching rule against a transaction, and placing a   *)
(* monthly or yearly recurrence's days in a month; and of what it          *)
(* declares: the transactions endpoints, the members of Api.Resource and   *)
(* the events of the Mq namespace.                                         *)
(*                                                                         *)
(* The package declares types only.  What the doc comments of the types    *)
(* say about these computations is modelled from the comments; the parts   *)
(* that the comments leave open (rounding, failure cases, sub-scores) are  *)
(* modelled from the design document and are marked so where defined.      *)
(***************************************************************************)
EXTENDS Integers, Sequences, FiniteSets, TLC

(***************************************************************************)
(* Bounds of the model.                                                    *)
(***************************************************************************)
MaxSplits == 3
MaxTotal == 5

(***************************************************************************)
(* Arithmetic helpers.                                                     *)
(***************************************************************************)
Abs(x) == IF x < 0 THEN -x ELSE x

RECURSIVE SumSeq(_)
SumSeq(s) == IF s = <<>> THEN 0 ELSE Head(s) + SumSeq(Tail(s))

(***************************************************************************)
(* SplitTemplate: value is a number or "rest", unit is "%" or "$".  A      *)
(* template is a record [rest, value, unit]; value is 0 when rest is TRUE. *)
(* The virtualAccountId of a template is its position in the list.         *)
(***************************************************************************)
PctValues == {0, 33, 40, 50, 60, 100}

FixedValues == {0, 2, 5}

RestTemplate == [rest |-> TRUE, value |-> 0, unit |-> "%"]

SplitTemplate ==
    {[rest |-> FALSE, value |-> v, unit |-> "%"] : v \in PctValues}
        \cup {[rest |-> FALSE, value |-> v, unit |-> "$"] : v \in FixedValues}
        \cup {RestTemplate}

RECURSIVE SeqsUpTo(_, _)
SeqsUpTo(S, n) ==
    IF n = 0 THEN {<<>>}
    ELSE LET shorter == SeqsUpTo(S, n - 1)
         IN  shorter \cup {Append(s, x) : s \in shorter, x \in S}

TemplateLists == SeqsUpTo(SplitTemplate, MaxSplits)

Totals == (-MaxTotal .. MaxTotal) \cup {-10000, 10000}

IsRest(t) == t.rest

IsPct(t) == ~t.rest /\ t.unit = "%"

IsFixed(t) == ~t.rest /\ t.unit = "$"

(***************************************************************************)
(* round(x) of a rational num/den, den > 0: the nearest integer, a half    *)
(* rounded up (Math.round).  \div is the floor division.                   *)
(***************************************************************************)
Round(num, den) == (2 * num + den) \div (2 * den)

(* A "%" split consumes value percent of the total value of the tx. *)
PctAmountOfAbs(T, v) == Round(Abs(T) * v, 100)

PctAmount(T, v) == Round(T * v, 100)

(* A "$" split is a monetary value in base units, on the side the sign of
   the transaction amount determines: debit when negative, credit otherwise. *)
FixedAmountUnsigned(T, v) == v

FixedAmount(T, v) == IF T < 0 THEN -v ELSE v

(* The amount of each split that is not a "rest" split; 0 holds the place
   of a "rest" split until the others have been calculated. *)
CalculatedAmounts(T, templates) ==
    [i \in 1 .. Len(templates) |->
        IF IsRest(templates[i]) THEN 0
        ELSE IF IsPct(templates[i]) THEN PctAmount(T, templates[i].value)
        ELSE FixedAmount(T, templates[i].value)]

(* Whatever is left over after the other splits have been calculated. *)
LeftOverUnsigned(T, templates) == Abs(T) - SumSeq(CalculatedAmounts(T, templates))

LeftOver(T, templates) == T - SumSeq(CalculatedAmounts(T, templates))

RestIndexes(templates) == {i \in 1 .. Len(templates) : IsRest(templates[i])}

PctIndexes(templates) == {i \in 1 .. Len(templates) : IsPct(templates[i])}

FixedIndexes(templates) == {i \in 1 .. Len(templates) : IsFixed(templates[i])}

RECURSIVE SumValues(_, _)
SumValues(templates, I) ==
    IF I = {} THEN 0
    ELSE LET i == CHOOSE j \in I : TRUE
         IN  templates[i].value + SumValues(templates, I \ {i})

PctTotal(templates) == SumValues(templates, PctIndexes(templates))

FixedTotalFirstOnly(templates) ==
    IF FixedIndexes(templates) = {} THEN 0
    ELSE templates[CHOOSE i \in FixedIndexes(templates) :
                       \A j \in FixedIndexes(templates) : i <= j].value

FixedTotal(templates) == SumValues(templates, FixedIndexes(templates))

(***************************************************************************)
(* Several "rest" splits divide what is left over evenly; the division     *)
(* truncates toward zero and the first "rest" split takes the remainder.   *)
(***************************************************************************)
TruncDiv(a, b) == IF a < 0 THEN -((-a) \div b) ELSE a \div b

RestShare(left, k) == TruncDiv(left, k)

RestAmount(left, k, first) ==
    IF first THEN RestShare(left, k) + (left - k * RestShare(left, k))
    ELSE RestShare(left, k)

FirstRest(templates) ==
    CHOOSE i \in RestIndexes(templates) : \A j \in RestIndexes(templates) : i <= j

(***************************************************************************)
(* The failure cases of a resolution: the percentages exceed 100, the      *)
(* fixed splits exceed the total, or something is left over and no "rest"  *)
(* split takes it.                                                         *)
(***************************************************************************)
PctOverflow(templates) == PctTotal(templates) > 100

FixedOverflow(T, templates) == FixedTotal(templates) > Abs(T)

UnabsorbedLeftOver(T, templates) ==
    RestIndexes(templates) = {} /\ LeftOver(T, templates) # 0

Invalid(T, templates) ==
    \/ PctOverflow(templates)
    \/ FixedOverflow(T, templates)
    \/ UnabsorbedLeftOver(T, templates)

SplitAmounts(T, templates) ==
    LET left == LeftOver(T, templates)
        k == Cardinality(RestIndexes(templates))
        calc == CalculatedAmounts(T, templates)
    IN  [i \in 1 .. Len(templates) |->
            IF IsRest(templates[i])
            THEN RestAmount(left, k, i = FirstRest(templates))
            ELSE calc[i]]

NoResolution == [ok |-> FALSE, error |-> "none", amounts |-> <<>>]

ResolveSplits(T, templates) ==
    IF Invalid(T, templates)
    THEN [ok |-> FALSE, error |-> "ValidationError", amounts |-> <<>>]
    ELSE [ok |-> TRUE, error |-> "none", amounts |-> SplitAmounts(T, templates)]

(***************************************************************************)
(* Rational numbers <<numerator, denominator>> in lowest terms, with a     *)
(* positive denominator: a match percentage need not be a whole number.    *)
(***************************************************************************)
RECURSIVE GCD(_, _)
GCD(a, b) == IF b = 0 THEN a ELSE GCD(b, a % b)

Frac(n, d) == LET g == GCD(Abs(n), d) IN <<n \div g, d \div g>>

Whole(k) == <<k, 1>>

FracAdd(x, y) == Frac(x[1] * y[2] + y[1] * x[2], x[2] * y[2])

FracDivInt(x, k) == Frac(x[1], x[2] * k)

FracLeq(x, y) == x[1] * y[2] <= y[1] * x[2]

(***************************************************************************)
(* MatchingClauses.  An optional clause that is absent is "none" (side,    *)
(* date.t) or has present = FALSE (desc, price), its other fields zero.    *)
(* A description or a term is a sequence of characters.                    *)
(***************************************************************************)
MsPerDay == 86400000

MaxTick == 4
MaxRadiusDays == 1
MaxAmountSteps == 6
MaxRadiusSteps == 2

(* Timestamps half a day apart. *)
Timestamps == {k * (MsPerDay \div 2) : k \in 0 .. MaxTick}

NoDate == [t |-> "none", centerMs |-> 0, radiusDays |-> 0, from |-> 0, to |-> 0]

DateClauses ==
    {NoDate}
        \cup {[t |-> "proximal-date", centerMs |-> c, radiusDays |-> r,
               from |-> 0, to |-> 0] :
                 c \in {MsPerDay \div 2}, r \in 0 .. MaxRadiusDays}
        \cup {[t |-> "date-range", centerMs |-> 0, radiusDays |-> 0,
               from |-> f, to |-> u] :
                 f \in {MsPerDay \div 2, MsPerDay}, u \in {MsPerDay, 2 * MsPerDay}}

Descriptions == {<<"a", "b">>, <<"b">>}

NoDesc == [present |-> FALSE, term |-> <<>>, regexp |-> FALSE]

DescClauses ==
    {NoDesc}
        \cup {[present |-> TRUE, term |-> t, regexp |-> x] :
                 t \in {<<"b">>, <<".", "b">>}, x \in BOOLEAN}

NoPrice == [present |-> FALSE, centerBaseUnits |-> 0, radiusBaseUnits |-> 0]

PriceClauses ==
    {NoPrice}
        \cup {[present |-> TRUE, centerBaseUnits |-> c, radiusBaseUnits |-> 250 * r] :
                 c \in {-1000, 1000}, r \in 0 .. MaxRadiusSteps}

Rules ==
    [side : {"none", "credit", "debit"}, date : DateClauses,
     desc : DescClauses, price : PriceClauses]

TxAmounts == {250 * k : k \in (-MaxAmountSteps .. MaxAmountSteps) \ {0}}

Transactions ==
    [amountBaseUnits : TxAmounts, timestampMs : Timestamps, description : Descriptions]

NoRule == [side |-> "none", date |-> NoDate, desc |-> NoDesc, price |-> NoPrice]

NoTx == [amountBaseUnits |-> 0, timestampMs |-> 0, description |-> <<>>]

(* The side of a transaction follows the sign of its amount. *)
TxSide(t) == IF t.amountBaseUnits < 0 THEN "debit" ELSE "credit"

SidePasses(r, t) == r.side = "none" \/ r.side = TxSide(t)

InRadiusForward(d, t) ==
    /\ t.timestampMs >= d.centerMs
    /\ t.timestampMs - d.centerMs <= d.radiusDays * MsPerDay

InRadius(d, t) == Abs(t.timestampMs - d.centerMs) <= d.radiusDays * MsPerDay

InRange(d, t) == d.from <= t.timestampMs /\ t.timestampMs <= d.to

DateNeverDisqualifies(r, t) == TRUE

DatePasses(r, t) ==
    CASE r.date.t = "none" -> TRUE
      [] r.date.t = "proximal-date" -> InRadius(r.date, t)
      [] r.date.t = "date-range" -> InRange(r.date, t)

(* side and date are the disqualifying clauses: the rule is discarded when
   one of them is present and the transaction does not satisfy it. *)
SideNotChecked(r, t) == ~DatePasses(r, t)

Discarded(r, t) == ~SidePasses(r, t) \/ ~DatePasses(r, t)

(* A regular expression of literal characters and ".", tested anywhere in
   the text (RegExp.test). *)
MatchAt(pattern, text, off) ==
    \A i \in 1 .. Len(pattern) : pattern[i] = "." \/ pattern[i] = text[off + i]

RegexpTest(pattern, text) ==
    \E off \in 0 .. (Len(text) - Len(pattern)) : MatchAt(pattern, text, off)

ExactMatch(term, text) == term = text

DescMatchesExactOnly(d, t) == ExactMatch(d.term, t.description)

DescMatches(d, t) ==
    IF d.regexp THEN RegexpTest(d.term, t.description)
    ELSE ExactMatch(d.term, t.description)

(* The match percentage of the desc clause: all or nothing. *)
DescScore(d, t) == IF DescMatches(d, t) THEN Whole(100) ELSE Whole(0)

(* The match percentage of the price clause: 100 at the center, 0 at or
   beyond the radius, linear in between. *)
PriceDistanceFromZero(p, t) == Abs(t.amountBaseUnits)

(* How far the amount of the transaction is from the center of the clause. *)
PriceDistance(p, t) == Abs(t.amountBaseUnits - p.centerBaseUnits)

PriceScore(p, t) ==
    LET dist == PriceDistance(p, t)
    IN  IF dist = 0 THEN Whole(100)
        ELSE IF dist >= p.radiusBaseUnits THEN Whole(0)
        ELSE Frac(100 * (p.radiusBaseUnits - dist), p.radiusBaseUnits)

(* The components present that are given a match percentage. *)
ComponentCount(r) ==
    (IF r.desc.present THEN 1 ELSE 0) + (IF r.price.present THEN 1 ELSE 0)

PercentageSum(r, t) ==
    FracAdd(IF r.desc.present THEN DescScore(r.desc, t) ELSE Whole(0),
            IF r.price.present THEN PriceScore(r.price, t) ELSE Whole(0))

(* "summing those numbers, then dividing them by 10,000 times the number of
   components present". *)
ScoreDivisor == 10000

AveragedScore(sum, n) == FracDivInt(sum, n)

DocumentedScore(sum, n) == FracDivInt(sum, ScoreDivisor * n)

(* The score of a discarded rule, and of a rule that is not discarded and
   has no component to score. *)
DiscardedScore == Whole(0)

VacuousScore == Whole(100)

MatchScore(r, t) ==
    IF Discarded(r, t) THEN DiscardedScore
    ELSE IF ComponentCount(r) = 0 THEN VacuousScore
    ELSE DocumentedScore(PercentageSum(r, t), ComponentCount(r))

NotScored == Whole(-1)

(* The outcome of scoring a rule: whether the rule was discarded, its score,
   and the match percentage of each component present. *)
ScoreRule(r, t) ==
    [discarded |-> Discarded(r, t),
     score |-> MatchScore(r, t),
     desc |-> IF r.desc.present THEN DescScore(r.desc, t) ELSE NotScored,
     price |-> IF r.price.present THEN PriceScore(r.price, t) ELSE NotScored]

NoScore == [discarded |-> FALSE, score |-> NotScored, desc |-> NotScored, price |-> NotScored]

(***************************************************************************)
(* Monthly and yearly recurrences: the days of the month on which the      *)
(* recurrence falls in a month it recurs in.  Months are 1 .. 12.          *)
(***************************************************************************)
MaxDayList == 1

Years == {1900, 2000, 2023, 2024}

Months == 1 .. 12

IsLeapYear(y) == (y % 4 = 0 /\ y % 100 # 0) \/ y % 400 = 0

DaysInMonth(y, m) ==
    IF m = 2 THEN (IF IsLeapYear(y) THEN 29 ELSE 28)
    ELSE IF m \in {4, 6, 9, 11} THEN 30
    ELSE 31

DayLists == SeqsUpTo(1 .. 31, MaxDayList)

MonthLists == {{2}, {1, 4}, {2, 6, 12}}

Recurrences ==
    [type : {"monthly-recurrences"}, interval : {1}, monthList : {{}}, dayList : DayLists]
        \cup [type : {"yearly-recurrences"}, interval : {1}, monthList : MonthLists,
              dayList : DayLists]

NoRecurrence ==
    [type |-> "none", interval |-> 0, monthList |-> {}, dayList |-> <<>>]

(* "When a number higher than the last day of the month is specified, the
   number is coerced to be the last day of the given month." *)
UncoercedDay(d, y, m) == d

CoercedDay(d, y, m) == IF d > DaysInMonth(y, m) THEN DaysInMonth(y, m) ELSE d

RecursIn(rec, m) == rec.type = "monthly-recurrences" \/ m \in rec.monthList

OccurrenceDays(rec, y, m) ==
    IF RecursIn(rec, m)
    THEN {CoercedDay(rec.dayList[i], y, m) : i \in 1 .. Len(rec.dayList)}
    ELSE {}

(***************************************************************************)
(* State: one invocation of one of the computations.  pc is "call" before  *)
(* the computation has run and "done" after.                               *)
(***************************************************************************)
(***************************************************************************)
(* Tag matching rules: "These rules are used to apply tags to              *)
(* transactions.  Multiple tag matching rules may match a single           *)
(* transaction."  The rules are evaluated one at a time, in any order.     *)
(***************************************************************************)
CreditClauses == [NoRule EXCEPT !.side = "credit"]

DebitClauses == [NoRule EXCEPT !.side = "debit"]

ShopClauses ==
    [NoRule EXCEPT !.desc = [present |-> TRUE, term |-> <<"b">>, regexp |-> TRUE]]

TagRulePool ==
    { [clauses |-> CreditClauses, tags |-> <<"income">>],
      [clauses |-> DebitClauses, tags |-> <<"expense">>],
      [clauses |-> ShopClauses, tags |-> <<"shop", "income">>] }

TagRuleSets == (SUBSET TagRulePool) \ {{}}

TagTransactions ==
    [amountBaseUnits : {-250, 250}, timestampMs : {0}, description : {<<"a">>, <<"a", "b">>}]

(* A rule matches a transaction when it is not discarded and its match
   score is above 0. *)
TagRuleMatches(r, t) ==
    /\ ~Discarded(r.clauses, t)
    /\ ~FracLeq(MatchScore(r.clauses, t), Whole(0))

RECURSIVE AppendNew(_, _)
AppendNew(tags, new) ==
    IF new = <<>> THEN tags
    ELSE IF \E i \in 1 .. Len(tags) : tags[i] = Head(new)
    THEN AppendNew(tags, Tail(new))
    ELSE AppendNew(Append(tags, Head(new)), Tail(new))

ReplacedTags(tags, r) == r.tags

(* The tags of the transaction once the rule has been applied to it. *)
AppliedTags(tags, r) == AppendNew(tags, r.tags)

(***************************************************************************)
(* The transactions endpoints.  A stored transaction keeps its amount and  *)
(* the amounts of its splits.  POST /transactions takes the amount and the *)
(* split amounts from the request; PATCH /transactions/:id and             *)
(* POST /transactions/bulk-edit take a transaction template whose split    *)
(* templates are resolved against the amount of each transaction edited.   *)
(***************************************************************************)
MaxTx == 2

TxIds == 1 .. MaxTx

NoStoredTx == [stored |-> FALSE, amountBaseUnits |-> 0, splits |-> <<>>]

PostAmounts == {2, 5}

PostSplits == {<<a>> : a \in PostAmounts} \cup {<<2, 3>>}

PostPayloads == [amountBaseUnits : PostAmounts, splits : PostSplits]

(* Partial<TransactionTemplate>: the splits may be absent from an edit. *)
NoSplitsEdit == [hasSplits |-> FALSE, splits |-> <<>>]

EditSplitTemplates ==
    { <<[rest |-> FALSE, value |-> 5, unit |-> "$"], RestTemplate>>,
      <<[rest |-> FALSE, value |-> 50, unit |-> "%"],
        [rest |-> FALSE, value |-> 50, unit |-> "%"]>> }

TemplateEdits ==
    {NoSplitsEdit} \cup {[hasSplits |-> TRUE, splits |-> ts] : ts \in EditSplitTemplates}

StoredIds(st) == {id \in TxIds : st[id].stored}

FreeIds(st) == TxIds \ StoredIds(st)

NextId(st) == CHOOSE id \in FreeIds(st) : \A other \in FreeIds(st) : id <= other

CreatedTransaction(payload) ==
    [stored |-> TRUE,
     amountBaseUnits |-> payload.amountBaseUnits,
     splits |-> payload.splits]

CanTake(t, edit) ==
    ~edit.hasSplits \/ ResolveSplits(t.amountBaseUnits, edit.splits).ok

EditedTransaction(t, edit) ==
    IF edit.hasSplits /\ CanTake(t, edit)
    THEN [t EXCEPT !.splits = ResolveSplits(t.amountBaseUnits, edit.splits).amounts]
    ELSE t

NoRequest == [endpoint |-> "none", ids |-> {}, edit |-> NoSplitsEdit]

NoResponse == [type |-> "none", warnings |-> {}]

TransactionResponse == [type |-> "transactions", warnings |-> {}]

ErrorResponse == [type |-> "ValidationError", warnings |-> {}]

NoWarningsResponse(failed) == [type |-> "warnings", warnings |-> {}]

WarningsResponse(failed) == [type |-> "warnings", warnings |-> failed]

BulkEditStore(st, selection, edit) ==
    [id \in TxIds |->
        IF id \in selection THEN EditedTransaction(st[id], edit) ELSE st[id]]

BulkEditFailures(st, selection, edit) ==
    {id \in selection : ~CanTake(st[id], edit)}

(***************************************************************************)
(* The resource declarations of the Api namespace, one set per snapshot of *)
(* the schema.  A member of Api.Resource is an intersection of object      *)
(* types, or a union of such intersections (its variants); each part of an *)
(* intersection may declare `id` and may constrain `type` to a set of      *)
(* string literals.  A value of the intersection has a `type` that every   *)
(* part admits.                                                            *)
(***************************************************************************)
Snapshots == {"Core.ts", "part_004", "part_003", "part_000"}

NoSnapshot == "none"

CommonMembers ==
    {"CashAccount", "EmailAddress", "ExpectedTransaction", "MatchingRule",
     "Membership", "Message", "MessageThread", "RecurringTransaction",
     "Space", "Split", "User", "VirtualAccount"}

ResourceMembers(snapshot) ==
    CASE snapshot = "Core.ts" -> CommonMembers \cup {"Transaction"}
      [] snapshot = "part_004" ->
             CommonMembers \cup {"Transaction", "VirtualAccountRelationship"}
      [] snapshot = "part_003" -> CommonMembers \cup {"Transaction"}
      [] snapshot = "part_000" ->
             CommonMembers \cup {"CashTransaction", "BankingProvider", "VirtualTransaction"}

RecurringTransactionVariants ==
    {"FixedRecurringTransaction", "AdaptiveEstimatedRecurringTransaction",
     "AdaptiveExactRecurringTransaction"}

(* The object types a member stands for: the three RecurringTransaction
   variants in the snapshots that declare them, the member itself otherwise. *)
Variants(snapshot, member) ==
    IF member = "RecurringTransaction" /\ snapshot \in {"part_003", "part_000"}
    THEN RecurringTransactionVariants
    ELSE {member}

CashAccountTypes(snapshot) == {"debit-accounts", "credit-accounts"}

SharedAccountTypes(snapshot) == CashAccountTypes(snapshot)

VirtualAccountTypes(snapshot) ==
    {"income-accounts", "expense-accounts", "transfer-accounts",
     "default-accounts", "budget-accounts", "goal-accounts"}

(* The `type` constraints of the Attributes part of a declaration. *)
AttributeTypes(snapshot, decl) ==
    CASE decl = "CashAccount" -> {CashAccountTypes(snapshot)}
      [] decl = "VirtualAccount" -> {VirtualAccountTypes(snapshot)}
      [] decl = "MatchingRule" /\ snapshot = "part_003" ->
             {{"description", "counterparty", "date-amount"}}
      [] decl = "MatchingRule" /\ snapshot = "part_000" ->
             {{"comment", "counterparty", "date-amount"}}
      [] decl = "FixedRecurringTransaction" -> {{"fixed"}}
      [] decl = "AdaptiveEstimatedRecurringTransaction" -> {{"adaptive"}}
      [] decl = "AdaptiveExactRecurringTransaction" -> {{"adaptive"}}
      [] OTHER -> {}

(* The `type` constraint of RecurringTransCommon, shared by the variants. *)
CommonTypes(snapshot, decl) ==
    IF decl \in RecurringTransactionVariants
    THEN {{"recurring-transactions"}}
    ELSE {}

(* The `type` literal a declaration adds to its Attributes part. *)
OwnTypes(snapshot, decl) ==
    CASE decl \in {"CashAccount", "VirtualAccount"} -> {}
      [] decl = "CashTransaction" -> {{"cash-transactions"}}
      [] decl = "EmailAddress" -> {{"email-addresses"}}
      [] decl = "ExpectedTransaction" -> {{"expected-transactions"}}
      [] decl = "MatchingRule" -> {{"matching-rules"}}
      [] decl = "Membership" -> {{"memberships"}}
      [] decl = "Message" -> {{"messsage"}}
      [] decl = "MessageThread" -> {{"message-threads"}}
      [] decl = "BankingProvider" -> {{"banking-providers"}}
      [] decl = "RecurringTransaction" -> {{"recurring-transactions"}}
      [] decl = "FixedRecurringTransaction" -> {{"fixed-recurring-transactions"}}
      [] decl = "AdaptiveEstimatedRecurringTransaction" ->
             {{"adaptive-estimated-recurring-transactions"}}
      [] decl = "AdaptiveExactRecurringTransaction" ->
             {{"adaptive-exact-recurring-transactions"}}
      [] decl = "Space" -> {{"spaces"}}
      [] decl = "Split" -> {{"splits"}}
      [] decl = "User" -> {{"users"}}
      [] decl = "VirtualAccountRelationship" -> {{"virtual-account-relationships"}}
      [] decl = "Transaction" -> {{"transactions"}}
      [] decl = "VirtualTransaction" -> {{"virtual-transactions"}}

TypeConstraints(snapshot, decl) ==
    AttributeTypes(snapshot, decl) \cup CommonTypes(snapshot, decl)
        \cup OwnTypes(snapshot, decl)

DeclaresType(snapshot, decl) == TypeConstraints(snapshot, decl) # {}

DeclaresId(snapshot, decl) == decl # "EmailAddress"

(* The literals every part of the intersection admits. *)
AdmittedTypes(snapshot, decl) ==
    {t \in UNION TypeConstraints(snapshot, decl) :
        \A part \in TypeConstraints(snapshot, decl) : t \in part}

MemberFields(snapshot, member) ==
    {f \in {"id", "type"} :
        \A decl \in Variants(snapshot, member) :
            /\ f = "id" => DeclaresId(snapshot, decl)
            /\ f = "type" => DeclaresType(snapshot, decl)}

MemberTypes(snapshot, member) ==
    UNION {AdmittedTypes(snapshot, decl) : decl \in Variants(snapshot, member)}

(* The object types of a member that no value can have: their parts admit
   no common `type` literal. *)
Uninhabited(snapshot, member) ==
    {decl \in Variants(snapshot, member) :
        DeclaresType(snapshot, decl) /\ AdmittedTypes(snapshot, decl) = {}}

DescribeResource(snapshot, member) ==
    [fields |-> MemberFields(snapshot, member),
     types |-> MemberTypes(snapshot, member),
     uninhabited |-> Uninhabited(snapshot, member)]

NoDescription == [fields |-> {}, types |-> {}, uninhabited |-> {}]

(***************************************************************************)
(* The message-queue events of the Mq namespace, one per Banking snapshot. *)
(***************************************************************************)
MqSnapshots == {"Banking.ts", "part_001", "part_002"}

MqEvents(snapshot) ==
    IF snapshot = "Banking.ts" THEN {"Import"} ELSE {"Transaction"}

MqDomain(snapshot, event) == "banking"

CreatedOnly(snapshot, event) == {"created"}

MqActions(snapshot, event) ==
    IF event = "Import" THEN {"created"} ELSE {"created", "updated", "deleted"}

MqResource(snapshot, event) ==
    IF event = "Import" THEN "imports" ELSE "transactions"

(* The fields of Attributes.Transaction, each with its declared type. *)
TransactionAttributes(snapshot) ==
    {<<"status", "cleared|pending">>, <<"amountBaseUnits", "number">>,
     <<"description", "string">>, <<"timestampMs", "number">>,
     <<"recordedMs", "number">>}
        \cup (IF snapshot = "part_002"
              THEN {<<"reconciledBaseUnits", "number">>}
              ELSE {<<"balanceBaseUnits", "number">>, <<"dayTxIndex", "number">>})

ImportAttributes(snapshot) ==
    {<<"src", IF snapshot = "part_002" THEN "csv|pull" ELSE "file|pull">>,
     <<"comment", "string|null">>, <<"timestampMs", "number">>}

OlderResourceFields(snapshot, event) ==
    {<<"t", "transactions">>, <<"id", "string">>,
     <<"status", "cleared|pending">>, <<"amountBaseUnits", "number">>,
     <<"reconciledBaseUnits", "number">>, <<"description", "string">>,
     <<"timestampMs", "number">>, <<"recordedMs", "number">>,
     <<"accountId", "string">>, <<"meta", "object">>, <<"importId", "string">>}

(* The fields of the resource of an event, each with its declared type. *)
MqResourceFields(snapshot, event) ==
    CASE event = "Import" ->
             ImportAttributes(snapshot)
                 \cup {<<"t", "imports">>, <<"id", "string">>,
                       <<"accountId", "string">>, <<"transactions", "array">>}
      [] event = "Transaction" /\ snapshot = "part_002" ->
             {<<"t", "transactions">>, <<"id", "string">>,
              <<"status", "cleared|pending">>, <<"amountBaseUnits", "number">>,
              <<"reconciledBaseUnits", "number">>, <<"description", "string">>,
              <<"timestampMs", "number">>, <<"recordedMs", "number">>,
              <<"accountId", "string">>, <<"meta", "object">>,
              <<"importId", "string">>}
      [] event = "Transaction" /\ snapshot # "part_002" ->
             {<<"t", "transactions">>, <<"id", "string">>,
              <<"status", "cleared|pending">>, <<"amountBaseUnits", "number">>,
              <<"balanceBaseUnits", "number">>, <<"description", "string">>,
              <<"timestampMs", "number">>, <<"recordedMs", "number">>,
              <<"dayTxIndex", "number">>, <<"accountId", "string">>,
              <<"meta", "object">>, <<"importId", "string">>}

MqMessages(snapshot, event) ==
    {[domain |-> MqDomain(snapshot, event),
      action |-> a,
      resource |-> MqResource(snapshot, event),
      fields |-> MqResourceFields(snapshot, event)] : a \in MqActions(snapshot, event)}

NoMessage == [domain |-> "none", action |-> "none", resource |-> "none", fields |-> {}]

VARIABLES pc, op, total, templates, resolution, rule, tx, score,
          recurrence, year, month, occurrences, store, request, response,
          snapshot, member, described, message,
          tagRules, pending, tagTx, tags

vars == <<pc, op, total, templates, resolution, rule, tx, score,
          recurrence, year, month, occurrences, store, request, response,
          snapshot, member, described, message,
          tagRules, pending, tagTx, tags>>

resolveVars == <<total, templates, resolution>>

scoreVars == <<rule, tx, score>>

expandVars == <<recurrence, year, month, occurrences>>

apiVars == <<store, request, response>>

schemaVars == <<snapshot, member, described, message>>

tagVars == <<tagRules, pending, tagTx, tags>>

IdleResolve == total = 0 /\ templates = <<>> /\ resolution = NoResolution

IdleScore == rule = NoRule /\ tx = NoTx /\ score = NoScore

IdleExpand == recurrence = NoRecurrence /\ year = 0 /\ month = 0 /\ occurrences = {}

EmptyStore == [id \in TxIds |-> NoStoredTx]

IdleApi == store = EmptyStore /\ request = NoRequest /\ response = NoResponse

IdleSchema ==
    /\ snapshot = NoSnapshot
    /\ member = "none"
    /\ described = NoDescription
    /\ message = NoMessage

IdleTag == tagRules = {} /\ pending = {} /\ tagTx = NoTx /\ tags = <<>>

InitResolve ==
    /\ op = "resolve"
    /\ total \in Totals
    /\ templates \in TemplateLists
    /\ resolution = NoResolution
    /\ IdleScore
    /\ IdleExpand
    /\ IdleApi
    /\ IdleSchema
    /\ IdleTag

InitScore ==
    /\ op = "score"
    /\ rule \in Rules
    /\ tx \in Transactions
    /\ score = NoScore
    /\ IdleResolve
    /\ IdleExpand
    /\ IdleApi
    /\ IdleSchema
    /\ IdleTag

InitExpand ==
    /\ op = "expand"
    /\ recurrence \in Recurrences
    /\ year \in Years
    /\ month \in Months
    /\ occurrences = {}
    /\ IdleResolve
    /\ IdleScore
    /\ IdleApi
    /\ IdleSchema
    /\ IdleTag

InitApi ==
    /\ op = "api"
    /\ IdleApi
    /\ IdleResolve
    /\ IdleScore
    /\ IdleExpand
    /\ IdleSchema
    /\ IdleTag

InitDescribe ==
    /\ op = "describe"
    /\ snapshot \in Snapshots
    /\ member \in ResourceMembers(snapshot)
    /\ described = NoDescription
    /\ message = NoMessage
    /\ IdleResolve
    /\ IdleScore
    /\ IdleExpand
    /\ IdleApi
    /\ IdleTag

InitPublish ==
    /\ op = "publish"
    /\ snapshot \in MqSnapshots
    /\ member \in MqEvents(snapshot)
    /\ described = NoDescription
    /\ message = NoMessage
    /\ IdleResolve
    /\ IdleScore
    /\ IdleExpand
    /\ IdleApi
    /\ IdleTag

InitTag ==
    /\ op = "tag"
    /\ tagRules \in TagRuleSets
    /\ pending = tagRules
    /\ tagTx \in TagTransactions
    /\ tags = <<>>
    /\ IdleResolve
    /\ IdleScore
    /\ IdleExpand
    /\ IdleApi
    /\ IdleSchema

Init ==
    /\ pc = "call"
    /\ (InitResolve \/ InitScore \/ InitExpand \/ InitApi \/ InitDescribe \/ InitPublish
        \/ InitTag)

Resolve ==
    /\ pc = "call"
    /\ op = "resolve"
    /\ resolution' = ResolveSplits(total, templates)
    /\ pc' = "done"
    /\ UNCHANGED <<op, total, templates, scoreVars, expandVars, apiVars, schemaVars, tagVars>>

Score ==
    /\ pc = "call"
    /\ op = "score"
    /\ score' = ScoreRule(rule, tx)
    /\ pc' = "done"
    /\ UNCHANGED <<op, rule, tx, resolveVars, expandVars, apiVars, schemaVars, tagVars>>

Expand ==
    /\ pc = "call"
    /\ op = "expand"
    /\ occurrences' = OccurrenceDays(recurrence, year, month)
    /\ pc' = "done"
    /\ UNCHANGED <<op, recurrence, year, month, resolveVars, scoreVars, apiVars, schemaVars, tagVars>>

PostTransaction ==
    /\ pc = "call"
    /\ op = "api"
    /\ FreeIds(store) # {}
    /\ \E payload \in PostPayloads :
           /\ store' = [store EXCEPT ![NextId(store)] = CreatedTransaction(payload)]
           /\ request' = [endpoint |-> "POST /transactions",
                          ids |-> {NextId(store)},
                          edit |-> NoSplitsEdit]
    /\ response' = TransactionResponse
    /\ UNCHANGED <<pc, op, resolveVars, scoreVars, expandVars, schemaVars, tagVars>>

PatchTransaction ==
    /\ pc = "call"
    /\ op = "api"
    /\ \E id \in StoredIds(store), edit \in TemplateEdits :
           /\ store' = [store EXCEPT ![id] = EditedTransaction(store[id], edit)]
           /\ request' = [endpoint |-> "PATCH /transactions/:id",
                          ids |-> {id},
                          edit |-> edit]
           /\ response' = IF CanTake(store[id], edit)
                          THEN TransactionResponse
                          ELSE ErrorResponse
    /\ UNCHANGED <<pc, op, resolveVars, scoreVars, expandVars, schemaVars, tagVars>>

BulkEdit ==
    /\ pc = "call"
    /\ op = "api"
    /\ \E selection \in SUBSET StoredIds(store), edit \in TemplateEdits :
           /\ selection # {}
           /\ store' = BulkEditStore(store, selection, edit)
           /\ request' = [endpoint |-> "POST /transactions/bulk-edit",
                          ids |-> selection,
                          edit |-> edit]
           /\ response' = WarningsResponse(BulkEditFailures(store, selection, edit))
    /\ UNCHANGED <<pc, op, resolveVars, scoreVars, expandVars, schemaVars, tagVars>>

Describe ==
    /\ pc = "call"
    /\ op = "describe"
    /\ described' = DescribeResource(snapshot, member)
    /\ pc' = "done"
    /\ UNCHANGED <<op, snapshot, member, message,
                   resolveVars, scoreVars, expandVars, apiVars, tagVars>>

Publish ==
    /\ pc = "call"
    /\ op = "publish"
    /\ message' \in MqMessages(snapshot, member)
    /\ pc' = "done"
    /\ UNCHANGED <<op, snapshot, member, described,
                   resolveVars, scoreVars, expandVars, apiVars, tagVars>>

ApplyTagRule ==
    /\ pc = "call"
    /\ op = "tag"
    /\ \E r \in pending :
           /\ tags' = IF TagRuleMatches(r, tagTx) THEN AppliedTags(tags, r) ELSE tags
           /\ pending' = pending \ {r}
           /\ pc' = IF pending = {r} THEN "done" ELSE "call"
    /\ UNCHANGED <<op, tagRules, tagTx,
                   resolveVars, scoreVars, expandVars, apiVars, schemaVars>>

Next ==
    \/ Resolve
    \/ Score
    \/ Expand
    \/ PostTransaction
    \/ PatchTransaction
    \/ BulkEdit
    \/ Describe
    \/ Publish
    \/ ApplyTagRule

Spec == Init /\ [][Next]_vars

(***************************************************************************)
(* Properties.                                                             *)
(***************************************************************************)
Resolved == pc = "done" /\ op = "resolve"

Scored == pc = "done" /\ op = "score"

Expanded == pc = "done" /\ op = "expand"

Pct(v) == [rest |-> FALSE, value |-> v, unit |-> "%"]

OnlyPct(ts) == \A i \in 1 .. Len(ts) : ~ts[i].rest /\ ts[i].unit = "%"

OnlyPctAndOneRest(ts) ==
    /\ Cardinality({i \in 1 .. Len(ts) : ts[i].rest}) = 1
    /\ \A i \in 1 .. Len(ts) : ts[i].rest \/ ts[i].unit = "%"

RECURSIVE PctValueSum(_)
PctValueSum(ts) ==
    IF ts = <<>> THEN 0
    ELSE (IF ~Head(ts).rest /\ Head(ts).unit = "%" THEN Head(ts).value ELSE 0)
             + PctValueSum(Tail(ts))

RECURSIVE RoundedPctSum(_, _)
RoundedPctSum(T, ts) ==
    IF ts = <<>> THEN 0
    ELSE (2 * T * Head(ts).value + 100) \div 200 + RoundedPctSum(T, Tail(ts))

(* C1: with exactly one "rest" split and percentage splits whose values sum
   to at most 100, the resolution succeeds, gives one amount per template,
   and the amounts sum exactly to the total. *)
C1_SplitsSumToTotal ==
    (Resolved /\ OnlyPctAndOneRest(templates) /\ PctValueSum(templates) <= 100)
        => /\ resolution.ok
           /\ Len(resolution.amounts) = Len(templates)
           /\ SumSeq(resolution.amounts) = total

(* C1 witness: a total of 10000 with [60%, rest] has resolved to
   [6000, 4000]. *)
C1_Witness ==
    /\ Resolved
    /\ total = 10000
    /\ templates = <<Pct(60), RestTemplate>>
    /\ resolution.ok
    /\ resolution.amounts = <<6000, 4000>>

(* C2 as stated: percentage splits that sum to exactly 100 with no "rest"
   split always resolve successfully, and percentage splits that sum to
   more than 100 fail with ValidationError. *)
C2_Original ==
    Resolved
        => /\ (OnlyPct(templates) /\ PctValueSum(templates) = 100) => resolution.ok
           /\ PctValueSum(templates) > 100
                  => ~resolution.ok /\ resolution.error = "ValidationError"

(* C2 amended: percentage splits that sum to exactly 100 with no "rest"
   split resolve successfully exactly when the individually rounded amounts
   round(T * v / 100) add up to T, as they do whenever T is a multiple of
   100, and fail with ValidationError otherwise; percentage splits that sum
   to more than 100 fail with ValidationError. *)
C2_ExactPercentages ==
    Resolved
        => /\ (OnlyPct(templates) /\ PctValueSum(templates) = 100)
                  => /\ resolution.ok <=> RoundedPctSum(total, templates) = total
                     /\ total % 100 = 0 => resolution.ok
                     /\ resolution.ok => SumSeq(resolution.amounts) = total
                     /\ ~resolution.ok => resolution.error = "ValidationError"
           /\ PctValueSum(templates) > 100
                  => ~resolution.ok /\ resolution.error = "ValidationError"

(* C2 witness: a negative total of -10000 with [60%, 40%] and no "rest"
   split has resolved to [-6000, -4000]. *)
C2_Witness ==
    /\ Resolved
    /\ total = -10000
    /\ templates = <<Pct(60), Pct(40)>>
    /\ resolution.ok
    /\ resolution.amounts = <<-6000, -4000>>

SideFails(r, t) ==
    /\ r.side # "none"
    /\ r.side # (IF t.amountBaseUnits < 0 THEN "debit" ELSE "credit")

InsideDate(d, t) ==
    IF d.t = "date-range" THEN d.from <= t.timestampMs /\ t.timestampMs <= d.to
    ELSE /\ d.centerMs - d.radiusDays * 86400000 <= t.timestampMs
         /\ t.timestampMs <= d.centerMs + d.radiusDays * 86400000

DateFails(r, t) == r.date.t # "none" /\ ~InsideDate(r.date, t)

FullMatch(r, t) ==
    /\ r.desc.present => DescMatches(r.desc, t)
    /\ r.price.present => t.amountBaseUnits = r.price.centerBaseUnits

WithoutDate(r) == [r EXCEPT !.date = NoDate]

WithoutDesc(r) == [r EXCEPT !.desc = NoDesc]

WithoutPrice(r) == [r EXCEPT !.price = NoPrice]

PriceOnly(c, rad) ==
    [side |-> "none", date |-> NoDate, desc |-> NoDesc,
     price |-> [present |-> TRUE, centerBaseUnits |-> c, radiusBaseUnits |-> rad]]

(* C3: when the rule has a side clause that the transaction's side does
   not equal, or a date clause that the transaction's timestamp is not
   inside, the score is 0 whatever the desc and price clauses are. *)
C3_DisqualifiedScoresZero ==
    (Scored /\ (SideFails(rule, tx) \/ DateFails(rule, tx)))
        => score.score = Whole(0)

(* C3 witness: a rule whose desc and price clauses both match fully and
   whose date clause excludes the transaction has been scored 0. *)
C3_Witness ==
    /\ Scored
    /\ DateFails(rule, tx)
    /\ ~SideFails(rule, tx)
    /\ rule.desc.present /\ rule.price.present
    /\ FullMatch(rule, tx)
    /\ score.score = Whole(0)

(* C4 as stated: the score of a rule that passes its disqualifying clauses
   is the sum of the sub-scores of its present desc and price clauses over
   100 times their number, times 100, and every score lies in 0 .. 100. *)
C4_Original ==
    Scored
        => /\ (~score.discarded /\ ComponentCount(rule) > 0)
                  => score.score
                         = AveragedScore(PercentageSum(rule, tx), ComponentCount(rule))
           /\ FracLeq(Whole(0), score.score)
           /\ FracLeq(score.score, Whole(100))

(* C5 as stated: the score is the sum of the match percentages of the
   components present over 10,000 times their number, and that value is a
   percentage from 0 to 100 which is 100 when every present component
   matches fully. *)
C5_Original ==
    (Scored /\ ~score.discarded /\ ComponentCount(rule) > 0)
        => /\ score.score
                  = FracDivInt(PercentageSum(rule, tx), 10000 * ComponentCount(rule))
           /\ FracLeq(Whole(0), score.score)
           /\ FracLeq(score.score, Whole(100))
           /\ FullMatch(rule, tx) => score.score = Whole(100)

(* C6 as stated: the price sub-score is 100 at the center, 0 at or beyond
   the radius and linear in between, and a rule with only a price clause of
   center 1000 and radius 500 scores 100 for the amount 1000, 50 for 1250
   and 0 for 1500. *)
C6_Original ==
    Scored
        => /\ rule.price.present
                  => LET dist == Abs(tx.amountBaseUnits - rule.price.centerBaseUnits)
                         rad == rule.price.radiusBaseUnits
                     IN  /\ dist = 0 => PriceScore(rule.price, tx) = Whole(100)
                         /\ (dist # 0 /\ dist >= rad)
                                => PriceScore(rule.price, tx) = Whole(0)
                         /\ (dist # 0 /\ dist < rad)
                                => PriceScore(rule.price, tx)
                                       = Frac(100 * (rad - dist), rad)
           /\ rule = PriceOnly(1000, 500)
                  => /\ tx.amountBaseUnits = 1000 => score.score = Whole(100)
                     /\ tx.amountBaseUnits = 1250 => score.score = Whole(50)
                     /\ tx.amountBaseUnits = 1500 => score.score = Whole(0)

(* C7 as stated, for a rule that has both a desc and a price clause: the
   score is never lower than the score of the same rule with its desc
   clause removed, nor than the score of the same rule with its price
   clause removed, whether or not the removed clause matches. *)
C7_Original ==
    (Scored /\ rule.desc.present /\ rule.price.present)
        => /\ FracLeq(MatchScore(WithoutDesc(rule), tx), score.score)
           /\ FracLeq(MatchScore(WithoutPrice(rule), tx), score.score)

(* C8: a rule with no desc and no price clause scores 100 when the
   transaction passes every disqualifying clause that is present (also when
   no clause at all is present) and 0 otherwise; the score is a number in
   either case, no division by a clause count of zero takes place. *)
C8_NoScoredClause ==
    (Scored /\ ~rule.desc.present /\ ~rule.price.present)
        => /\ score.score
                  = (IF SideFails(rule, tx) \/ DateFails(rule, tx)
                     THEN Whole(0) ELSE Whole(100))
           /\ score.score[2] = 1

(* C8 witness: a rule with no clause at all has been scored 100. *)
C8_Witness ==
    /\ Scored
    /\ rule = NoRule
    /\ ~score.discarded
    /\ score.score = Whole(100)

(* C9: a transaction passes a date-range clause iff from <= timestamp <= to
   and a proximal-date clause iff its timestamp is within radiusDays days of
   centerMs on either side; the transaction that passes is scored (as if the
   rule had no date clause) and the one that does not has the rule
   discarded. *)
C9_DateClause ==
    (Scored /\ rule.date.t # "none" /\ ~SideFails(rule, tx))
        => /\ score.discarded <=> ~InsideDate(rule.date, tx)
           /\ ~score.discarded => score.score = MatchScore(WithoutDate(rule), tx)

(* C9 witness: a transaction dated before the center of a proximal-date
   clause and within its radius has been scored, not discarded. *)
C9_Witness ==
    /\ Scored
    /\ rule.date.t = "proximal-date"
    /\ tx.timestampMs < rule.date.centerMs
    /\ rule.date.radiusDays > 0
    /\ ~score.discarded
    /\ ComponentCount(rule) > 0

(* C10: in a month in which a monthly or yearly recurrence recurs, every
   dayList entry greater than the number of days of the month gives an
   occurrence on the last day of the month, every other entry gives an
   occurrence on that day, and there is no other occurrence. *)
C10_DayListClamped ==
    (Expanded /\ (recurrence.type = "monthly-recurrences" \/ month \in recurrence.monthList))
        => LET last == DaysInMonth(year, month)
           IN  /\ \A i \in 1 .. Len(recurrence.dayList) :
                      IF recurrence.dayList[i] > last
                      THEN last \in occurrences
                      ELSE recurrence.dayList[i] \in occurrences
               /\ \A d \in occurrences :
                      /\ d <= last
                      /\ \E i \in 1 .. Len(recurrence.dayList) :
                             d = recurrence.dayList[i]
                                 \/ (d = last /\ recurrence.dayList[i] > last)

(* C10 witness: a monthly recurrence with dayList = [31] has an occurrence
   on 29 February 2024 and a yearly one on 28 February 2023. *)
C10_Witness ==
    /\ Expanded
    /\ month = 2
    /\ recurrence.dayList = <<31>>
    /\ \/ recurrence.type = "monthly-recurrences" /\ year = 2024 /\ occurrences = {29}
       \/ recurrence.type = "yearly-recurrences" /\ year = 2023 /\ occurrences = {28}

RECURSIVE FixedValueSum(_)
FixedValueSum(ts) ==
    IF ts = <<>> THEN 0
    ELSE (IF ~Head(ts).rest /\ Head(ts).unit = "$" THEN Head(ts).value ELSE 0)
             + FixedValueSum(Tail(ts))

(* The sum of round(T * v / 100) over the "%" splits and of v, with the
   sign of T, over the "$" splits. *)
RECURSIVE NonRestSum(_, _)
NonRestSum(T, ts) ==
    IF ts = <<>> THEN 0
    ELSE (IF Head(ts).rest THEN 0
          ELSE IF Head(ts).unit = "%" THEN (2 * T * Head(ts).value + 100) \div 200
          ELSE IF T < 0 THEN -Head(ts).value ELSE Head(ts).value)
             + NonRestSum(T, Tail(ts))

NoRest(ts) == \A i \in 1 .. Len(ts) : ~ts[i].rest

RestPositions(ts) == {i \in 1 .. Len(ts) : ts[i].rest}

SameSide(a, T) == a = 0 \/ (a < 0 /\ T < 0) \/ (a > 0 /\ T > 0)

Fixed(v) == [rest |-> FALSE, value |-> v, unit |-> "$"]

(* C11: the resolution fails with ValidationError when the "$" splits
   exceed the total, and when a non-zero amount is left over after the "%"
   and "$" splits and there is no "rest" split; a failed resolution
   produces no split amounts. *)
C11_FailureCases ==
    Resolved
        => /\ FixedValueSum(templates) > Abs(total)
                  => ~resolution.ok /\ resolution.error = "ValidationError"
           /\ (NoRest(templates) /\ total - NonRestSum(total, templates) # 0)
                  => ~resolution.ok /\ resolution.error = "ValidationError"
           /\ ~resolution.ok => resolution.amounts = <<>>

(* C11 witness: the "$" splits 2 and 5 of a total of 5, with a "rest" split
   in the list, have failed with ValidationError and no amounts. *)
C11_Witness ==
    /\ Resolved
    /\ total = 5
    /\ templates = <<Fixed(2), Fixed(5), RestTemplate>>
    /\ resolution = [ok |-> FALSE, error |-> "ValidationError", amounts |-> <<>>]

(* C12 as stated: every amount of a successful resolution is zero or has
   the sign of the total. *)
C12_Original ==
    (Resolved /\ resolution.ok)
        => \A i \in 1 .. Len(resolution.amounts) :
               SameSide(resolution.amounts[i], total)

(* C19: in a successful resolution each "%" split of value v receives an
   integer nearest to T * v / 100 and each "$" split of value v receives v
   base units with the sign of T. *)
C19_PctAndFixedAmounts ==
    (Resolved /\ resolution.ok)
        => \A i \in 1 .. Len(templates) :
               LET a == resolution.amounts[i]
                   v == templates[i].value
               IN  /\ (~templates[i].rest /\ templates[i].unit = "%")
                          => Abs(100 * a - total * v) <= 50
                   /\ (~templates[i].rest /\ templates[i].unit = "$")
                          => Abs(a) = v /\ SameSide(a, total)

(* C19 witness: a total of -5 with [50%, $2, rest] has resolved to
   [-2, -2, -1]. *)
C19_Witness ==
    /\ Resolved
    /\ total = -5
    /\ templates = <<Pct(50), Fixed(2), RestTemplate>>
    /\ resolution.ok
    /\ resolution.amounts = <<-2, -2, -1>>

(* C20: with several "rest" splits, what remains after the "%" and "$"
   splits is divided evenly: every "rest" split but the first receives the
   same share, the quotient of the remaining amount by the number of "rest"
   splits, the first receives that share and the whole remainder of the
   division, and the "rest" amounts sum exactly to the remaining amount. *)
C20_RestSplits ==
    (Resolved /\ resolution.ok /\ Cardinality(RestPositions(templates)) >= 2)
        => LET R == RestPositions(templates)
               k == Cardinality(R)
               first == CHOOSE i \in R : \A j \in R : i <= j
               left == total - NonRestSum(total, templates)
               share == IF left < 0 THEN -((-left) \div k) ELSE left \div k
           IN  /\ \A i \in R \ {first} : resolution.amounts[i] = share
               /\ resolution.amounts[first] = share + (left - k * share)
               /\ Abs(left - k * share) < k
               /\ SumSeq([i \in 1 .. Len(templates) |->
                             IF i \in R THEN resolution.amounts[i] ELSE 0]) = left

(* C20 witness: a total of -5 with [rest, 40%, rest] has resolved to
   [-2, -2, -1]: -3 remain, each "rest" split has the share -1 and the first
   the remainder -1 as well. *)
C20_Witness ==
    /\ Resolved
    /\ total = -5
    /\ templates = <<RestTemplate, Pct(40), RestTemplate>>
    /\ resolution.ok
    /\ resolution.amounts = <<-2, -2, -1>>

(* C13 as stated: the splits of every stored transaction sum to its
   amountBaseUnits, whatever requests have been served. *)
C13_Original ==
    \A id \in TxIds :
        store[id].stored => SumSeq(store[id].splits) = store[id].amountBaseUnits

(* C14: a bulk edit answers with a result of type "warnings"; every
   selected transaction that can take the template has the resolved split
   amounts afterwards and is not listed, every selected transaction that
   cannot take it is left as it was and is listed, and no other
   transaction changes. *)
C14_BulkEditPartialSuccess ==
    [][request'.endpoint = "POST /transactions/bulk-edit"
           => /\ response'.type = "warnings"
              /\ \A id \in TxIds \ request'.ids : store'[id] = store[id]
              /\ \A id \in request'.ids :
                     LET r == ResolveSplits(store[id].amountBaseUnits,
                                            request'.edit.splits)
                     IN  IF ~request'.edit.hasSplits
                         THEN store'[id] = store[id] /\ id \notin response'.warnings
                         ELSE IF r.ok
                         THEN /\ store'[id].splits = r.amounts
                              /\ store'[id].amountBaseUnits = store[id].amountBaseUnits
                              /\ id \notin response'.warnings
                         ELSE /\ store'[id] = store[id]
                              /\ id \in response'.warnings]_vars

(* C14 witness: the template [$5, rest] has been applied to a selection of
   a transaction of 2, which cannot take it and keeps its splits [2, 3],
   and a transaction of 5, which now has the splits [5, 0]; the result
   lists the first. *)
C14_Witness ==
    /\ request.endpoint = "POST /transactions/bulk-edit"
    /\ request.ids = {1, 2}
    /\ request.edit.splits = <<[rest |-> FALSE, value |-> 5, unit |-> "$"], RestTemplate>>
    /\ store[1] = [stored |-> TRUE, amountBaseUnits |-> 2, splits |-> <<2, 3>>]
    /\ store[2] = [stored |-> TRUE, amountBaseUnits |-> 5, splits |-> <<5, 0>>]
    /\ response = [type |-> "warnings", warnings |-> {1}]

Described == op = "describe" /\ pc = "done"

Published == op = "publish" /\ pc = "done"

(* C15 as stated: every member of Api.Resource carries both an `id` field
   and a `type` field. *)
C15_Original == Described => {"id", "type"} \subseteq described.fields

(* C16: every member of Api.Resource has a `type` field, and no `type`
   literal admitted by one member is admitted by another member of the same
   union. *)
C16_TypeDiscriminates ==
    Described
        => /\ "type" \in described.fields
           /\ \A other \in ResourceMembers(snapshot) \ {member} :
                  described.types \cap MemberTypes(snapshot, other) = {}

(* C16 witness: VirtualAccount of Core.ts, whose `type` comes from its
   attributes alone, has been described with its six literals. *)
C16_Witness ==
    /\ Described
    /\ snapshot = "Core.ts"
    /\ member = "VirtualAccount"
    /\ described.types =
           {"income-accounts", "expense-accounts", "transfer-accounts",
            "default-accounts", "budget-accounts", "goal-accounts"}

(* C17: every Mq event has the domain "banking", an action among created,
   updated and deleted, and a resource; a transaction event may carry any of
   the three actions. *)
C17_MqEnvelope ==
    Published
        => /\ message.domain = "banking"
           /\ message.action \in {"created", "updated", "deleted"}
           /\ message.resource # "none"
           /\ member = "Transaction"
                  => \A a \in {"created", "updated", "deleted"} :
                         \E m \in MqMessages(snapshot, member) : m.action = a

(* C17 witness: a transaction event of part_001 has been published with the
   action "deleted". *)
C17_Witness ==
    /\ Published
    /\ snapshot = "part_001"
    /\ member = "Transaction"
    /\ message.domain = "banking"
    /\ message.action = "deleted"
    /\ message.resource = "transactions"

(* Whether the pattern, read as a regular expression of literal characters
   and ".", occurs in the text at some offset. *)
OccursIn(pattern, text) ==
    \E off \in 0 .. (Len(text) - Len(pattern)) :
        \A i \in 1 .. Len(pattern) :
            pattern[i] = "." \/ pattern[i] = text[off + i]

(* C21: the match percentage of a desc clause is 100 when the description
   of the transaction matches the term, as a whole when regexp is false and
   as a regular expression when regexp is true, and 0 otherwise. *)
C21_DescBinary ==
    (Scored /\ rule.desc.present)
        => /\ score.desc \in {Whole(0), Whole(100)}
           /\ score.desc = Whole(100)
                  <=> IF rule.desc.regexp
                      THEN OccursIn(rule.desc.term, tx.description)
                      ELSE rule.desc.term = tx.description

(* C21 witness: the regular expression ".b" has been scored 100 against the
   description "ab", which the term does not equal. *)
C21_Witness ==
    /\ Scored
    /\ rule.desc = [present |-> TRUE, term |-> <<".", "b">>, regexp |-> TRUE]
    /\ tx.description = <<"a", "b">>
    /\ score.desc = Whole(100)

(* C24: a price clause of radius 0 has a match percentage for every
   transaction: 100 when the amount equals the center, 0 for any other
   amount. *)
C24_ZeroRadius ==
    (Scored /\ rule.price.present /\ rule.price.radiusBaseUnits = 0)
        => score.price = IF tx.amountBaseUnits = rule.price.centerBaseUnits
                         THEN Whole(100)
                         ELSE Whole(0)

(* C24 witness: a price clause of center 1000 and radius 0 has been scored
   100 against an amount of 1000. *)
C24_Witness ==
    /\ Scored
    /\ rule.price = [present |-> TRUE, centerBaseUnits |-> 1000, radiusBaseUnits |-> 0]
    /\ tx.amountBaseUnits = 1000
    /\ score.price = Whole(100)

(* C23 as stated: in every snapshot the `type` constraints intersected into
   one Api resource type have at least one common value. *)
C23_Original == Described => described.uninhabited = {}

(* C25: the resource of a transaction event carries every field of the
   Attributes.Transaction of its snapshot, with the same type. *)
C25_EventCarriesAttributes ==
    (Published /\ member = "Transaction")
        => TransactionAttributes(snapshot) \subseteq message.fields

(* C25 witness: a transaction event of part_001 has been published whose
   resource carries balanceBaseUnits and dayTxIndex. *)
C25_Witness ==
    /\ Published
    /\ snapshot = "part_001"
    /\ member = "Transaction"
    /\ <<"balanceBaseUnits", "number">> \in message.fields
    /\ <<"dayTxIndex", "number">> \in message.fields

Range(seq) == {seq[i] : i \in 1 .. Len(seq)}

(* The rules of the set that are not discarded for the transaction and
   score above 0. *)
MatchingTagRules(rules, t) ==
    {r \in rules :
        /\ SidePasses(r.clauses, t)
        /\ DatePasses(r.clauses, t)
        /\ ~FracLeq(MatchScore(r.clauses, t), Whole(0))}

(* C22: whatever the order in which the tag matching rules are evaluated,
   the transaction has the tags of every matching rule evaluated so far and
   no others; once every rule is evaluated it has the tags of all the
   matching rules. *)
C22_AllMatchingRulesApply ==
    op = "tag"
        => Range(tags) =
               UNION {Range(r.tags) : r \in MatchingTagRules(tagRules \ pending, tagTx)}

(* C22 witness: the rules tagging "income" and "shop", "income" both match
   a credit transaction described "ab" and both have been applied to it,
   the credit rule first. *)
C22_Witness ==
    /\ op = "tag"
    /\ pc = "done"
    /\ tagRules = TagRulePool
    /\ tagTx = [amountBaseUnits |-> 250, timestampMs |-> 0, description |-> <<"a", "b">>]
    /\ tags = <<"income", "shop">>

=============================================================================
